---- MODULE Spec2Model ----
(***************************************************************************)
(* Model of mensageria/irrigador/irrigador.c: a single-threaded AMQP       *)
(* consumer.  main() reads five environment variables, opens a connection, *)
(* logs in, opens channel 1, declares a queue, starts consuming, loops on  *)
(* amqp_consume_message until a non-normal reply, then closes the channel  *)
(* and the connection.  The broker library is the environment: each of its *)
(* calls returns a nondeterministically chosen result.                     *)
(*                                                                         *)
(* Every library call and every handler run is appended to `calls`, so the *)
(* ordering properties are statements about that log.                      *)
(***************************************************************************)
EXTENDS Integers, Sequences, FiniteSets, TLC

VARIABLES
    pc,         \* position of main(): the statement about to execute
    env,        \* the process environment: [present: set of keys, value: key -> value]
    hostname,   \* main's locals read from the environment
    port,
    queue_name,
    username,
    password,
    conn,       \* connection state object: "none" | "allocated" | "destroyed"
    envelope,   \* the loop's envelope: NoEnvelope or the one filled by the last receive
    calls,      \* log of library calls and handler runs, in program order
    stdout,     \* lines printed with printf
    stderr,     \* lines printed with fprintf(stderr, ...)
    exit_code   \* NoExit while running, else the process exit status

vars == <<pc, env, hostname, port, queue_name, username, password, conn,
          envelope, calls, stdout, stderr, exit_code>>

----------------------------------------------------------------------------
(* Bounds *)

MaxMessages == 2    \* messages the broker delivers before it stops delivering
MaxBodyLen  == 1    \* longest message body

----------------------------------------------------------------------------
(* Values *)

NoExit     == -1
NoEnvelope == [live |-> FALSE, message |-> [body |-> [len |-> 0, bytes |-> <<>>]]]
Unset      == "<unset>"

EnvKeys == <<"RABBITMQ_HOST", "RABBITMQ_PORT", "RABBITMQ_QUEUE",
             "RABBITMQ_USERNAME", "RABBITMQ_PASSWORD">>

KeySet == {EnvKeys[i] : i \in 1..Len(EnvKeys)}

\* Values RABBITMQ_PORT may hold, as character sequences.
PortStrings == { <<"5","6","7","2">>, <<"a","b","c">>, <<"1","2","x">>, <<" ","-","7">> }

\* Message body bytes; 0 is the NUL byte.
Bytes == {0, 65}

RECURSIVE SeqsUpTo(_, _)
SeqsUpTo(S, n) ==
    IF n = 0 THEN { <<>> }
    ELSE LET shorter == SeqsUpTo(S, n - 1)
         IN  shorter \cup { Append(s, b) : s \in {t \in shorter : Len(t) = n - 1}, b \in S }

Bodies == { [len |-> Len(s), bytes |-> s] : s \in SeqsUpTo(Bytes, MaxBodyLen) }

AMQP_CONNECTION_CLOSE_METHOD == 655410     \* 0x000A0032
AMQP_CHANNEL_CLOSE_METHOD    == 1310760    \* 0x00140028
AMQP_BASIC_CANCEL_METHOD     == 3932190    \* 0x003C001E, some other method id
AMQP_REPLY_SUCCESS           == 200
AMQP_STATUS_SOCKET_ERROR     == -9

Reply(t, id, lib, code, text) ==
    [reply_type |-> t, id |-> id, library_error |-> lib,
     reply_code |-> code, reply_text |-> text]

NormalReply == Reply("AMQP_RESPONSE_NORMAL", 0, 0, 0, "")

\* The amqp_rpc_reply_t values the library can hand back.
Replies ==
    { NormalReply,
      Reply("AMQP_RESPONSE_NONE", 0, 0, 0, ""),
      Reply("AMQP_RESPONSE_LIBRARY_EXCEPTION", 0, AMQP_STATUS_SOCKET_ERROR, 0, ""),
      Reply("AMQP_RESPONSE_SERVER_EXCEPTION", AMQP_CONNECTION_CLOSE_METHOD, 0, 320, "CONNECTION_FORCED"),
      Reply("AMQP_RESPONSE_SERVER_EXCEPTION", AMQP_CHANNEL_CLOSE_METHOD, 0, 404, "NOT_FOUND"),
      Reply("AMQP_RESPONSE_SERVER_EXCEPTION", AMQP_BASIC_CANCEL_METHOD, 0, 0, "") }

IsNormal(x) == x.reply_type = "AMQP_RESPONSE_NORMAL"

Call(op, args, ret) == [op |-> op, args |-> args, ret |-> ret]

----------------------------------------------------------------------------
(* Library and libc functions the program relies on *)

IsSpace(c) == c \in {" ", "\t", "\n"}

IsDigit(c) == c \in {"0","1","2","3","4","5","6","7","8","9"}

DigitVal(c) ==
    CASE c = "0" -> 0 [] c = "1" -> 1 [] c = "2" -> 2 [] c = "3" -> 3 [] c = "4" -> 4
      [] c = "5" -> 5 [] c = "6" -> 6 [] c = "7" -> 7 [] c = "8" -> 8 [] c = "9" -> 9

RECURSIVE SkipSpace(_)
SkipSpace(s) == IF s # <<>> /\ IsSpace(Head(s)) THEN SkipSpace(Tail(s)) ELSE s

RECURSIVE ParseDigits(_, _)
ParseDigits(s, acc) ==
    IF s # <<>> /\ IsDigit(Head(s))
    THEN ParseDigits(Tail(s), acc * 10 + DigitVal(Head(s)))
    ELSE acc

\* Variant: a value without leading digits yields -1 instead of 0.
atoi_MinusOne(s) ==
    LET t == SkipSpace(s)
        u == IF t # <<>> /\ Head(t) \in {"-", "+"} THEN Tail(t) ELSE t
    IN  IF u = <<>> \/ ~IsDigit(Head(u)) THEN 0 - 1
        ELSE IF Head(t) = "-" THEN 0 - ParseDigits(u, 0)
        ELSE ParseDigits(u, 0)

\* atoi(3): skip white space, take an optional sign, then the leading digits;
\* no digits at all gives 0.
atoi(s) ==
    LET t == SkipSpace(s)
    IN  IF t # <<>> /\ Head(t) = "-" THEN 0 - ParseDigits(Tail(t), 0)
        ELSE IF t # <<>> /\ Head(t) = "+" THEN ParseDigits(Tail(t), 0)
        ELSE ParseDigits(t, 0)

RECURSIVE UpToNul(_)
UpToNul(bytes) ==
    IF bytes = <<>> \/ Head(bytes) = 0 THEN <<>>
    ELSE <<Head(bytes)>> \o UpToNul(Tail(bytes))

\* What printf's "%.*s" writes for (prec, bytes): at most prec bytes, stopping
\* at the first NUL.
PrintfPrecS(prec, bytes) ==
    LET n == IF prec < Len(bytes) THEN prec ELSE Len(bytes)
    IN  UpToNul(SubSeq(bytes, 1, n))

getenv(name) == IF name \in env.present THEN env.value[name] ELSE Unset

----------------------------------------------------------------------------
(* get_env and die_on_amqp_error: what the call does to the process.       *)
(* exits = TRUE means the function called exit(status) after printing out. *)

\* Variant: exit(0) instead of exit(1) on an unset variable.
get_env_ExitZero(name) ==
    IF name \notin env.present
    THEN [exits |-> TRUE, status |-> 0, value |-> Unset,
          out |-> << <<"env", name, "is not set">> >>]
    ELSE [exits |-> FALSE, status |-> 0, value |-> getenv(name), out |-> <<>>]

\* Variant: the exit(1) after the message is missing; the caller gets an
\* empty value.
get_env_NoExit(name) ==
    IF name \notin env.present
    THEN [exits |-> FALSE, status |-> 0,
          value |-> IF name = "RABBITMQ_PORT" THEN <<>> ELSE "",
          out |-> << <<"env", name, "is not set">> >>]
    ELSE [exits |-> FALSE, status |-> 0, value |-> getenv(name), out |-> <<>>]

get_env(name) ==
    IF name \notin env.present
    THEN [exits |-> TRUE, status |-> 1, value |-> Unset,
          out |-> << <<"env", name, "is not set">> >>]
    ELSE [exits |-> FALSE, status |-> 0, value |-> getenv(name), out |-> <<>>]

\* Variant: the AMQP_RESPONSE_NONE case returns instead of falling to exit(1).
die_on_amqp_error_NoneReturns(x, context) ==
    CASE x.reply_type \in {"AMQP_RESPONSE_NORMAL", "AMQP_RESPONSE_NONE"} ->
            [exits |-> FALSE, status |-> 0, out |-> <<>>]
      [] x.reply_type = "AMQP_RESPONSE_LIBRARY_EXCEPTION" ->
            [exits |-> TRUE, status |-> 1,
             out |-> << <<context, "amqp_error_string2", x.library_error>> >>]
      [] x.reply_type = "AMQP_RESPONSE_SERVER_EXCEPTION" ->
            [exits |-> TRUE, status |-> 1,
             out |-> << <<context, "server error", x.id>> >>]

\* Variant: the two server-exception cases carry each other's message.
die_on_amqp_error_Swapped(x, context) ==
    CASE x.reply_type = "AMQP_RESPONSE_NORMAL" ->
            [exits |-> FALSE, status |-> 0, out |-> <<>>]
      [] x.reply_type = "AMQP_RESPONSE_NONE" ->
            [exits |-> TRUE, status |-> 1,
             out |-> << <<context, "missing RPC reply type!">> >>]
      [] x.reply_type = "AMQP_RESPONSE_LIBRARY_EXCEPTION" ->
            [exits |-> TRUE, status |-> 1,
             out |-> << <<context, "amqp_error_string2", x.library_error>> >>]
      [] x.reply_type = "AMQP_RESPONSE_SERVER_EXCEPTION" ->
            [exits |-> TRUE, status |-> 1,
             out |-> IF x.id = AMQP_CONNECTION_CLOSE_METHOD
                        THEN << <<context, "server channel error", x.reply_code, x.reply_text>> >>
                     ELSE IF x.id = AMQP_CHANNEL_CLOSE_METHOD
                        THEN << <<context, "server connection error", x.reply_code, x.reply_text>> >>
                     ELSE << <<context, "unknown server error, method id", x.id>> >>]

die_on_amqp_error(x, context) ==
    CASE x.reply_type = "AMQP_RESPONSE_NORMAL" ->
            [exits |-> FALSE, status |-> 0, out |-> <<>>]
      [] x.reply_type = "AMQP_RESPONSE_NONE" ->
            [exits |-> TRUE, status |-> 1,
             out |-> << <<context, "missing RPC reply type!">> >>]
      [] x.reply_type = "AMQP_RESPONSE_LIBRARY_EXCEPTION" ->
            [exits |-> TRUE, status |-> 1,
             out |-> << <<context, "amqp_error_string2", x.library_error>> >>]
      [] x.reply_type = "AMQP_RESPONSE_SERVER_EXCEPTION" ->
            [exits |-> TRUE, status |-> 1,
             out |-> IF x.id = AMQP_CONNECTION_CLOSE_METHOD
                        THEN << <<context, "server connection error", x.reply_code, x.reply_text>> >>
                     ELSE IF x.id = AMQP_CHANNEL_CLOSE_METHOD
                        THEN << <<context, "server channel error", x.reply_code, x.reply_text>> >>
                     ELSE << <<context, "unknown server error, method id", x.id>> >>]

----------------------------------------------------------------------------
(* Initial state: any environment; nothing has run. *)

Environments ==
    { [present |-> P,
       value   |-> [k \in KeySet |->
                      CASE k = "RABBITMQ_HOST"     -> "localhost"
                        [] k = "RABBITMQ_PORT"     -> ps
                        [] k = "RABBITMQ_QUEUE"    -> "irrigation"
                        [] k = "RABBITMQ_USERNAME" -> "u"
                        [] k = "RABBITMQ_PASSWORD" -> "p"]]
      : P \in SUBSET KeySet, ps \in PortStrings }

Init ==
    /\ pc = "get_hostname"
    /\ env \in Environments
    /\ hostname = Unset
    /\ port = 0
    /\ queue_name = Unset
    /\ username = Unset
    /\ password = Unset
    /\ conn = "none"
    /\ envelope = NoEnvelope
    /\ calls = <<>>
    /\ stdout = <<>>
    /\ stderr = <<>>
    /\ exit_code = NoExit

\* exit(status) or return status from main.
Exit(status) ==
    /\ pc' = "exited"
    /\ exit_code' = status

----------------------------------------------------------------------------
(* main, lines 61-65: configuration *)

GetHostname ==
    /\ pc = "get_hostname"
    /\ LET r == get_env("RABBITMQ_HOST")
       IN  /\ stdout' = stdout \o r.out
           /\ IF r.exits
              THEN Exit(r.status) /\ UNCHANGED hostname
              ELSE pc' = "get_port" /\ hostname' = r.value /\ UNCHANGED exit_code
    /\ UNCHANGED <<env, port, queue_name, username, password, conn, envelope, calls, stderr>>

GetPort ==
    /\ pc = "get_port"
    /\ LET r == get_env("RABBITMQ_PORT")
       IN  /\ stdout' = stdout \o r.out
           /\ IF r.exits
              THEN Exit(r.status) /\ UNCHANGED port
              ELSE pc' = "get_queue_name" /\ port' = atoi(r.value) /\ UNCHANGED exit_code
    /\ UNCHANGED <<env, hostname, queue_name, username, password, conn, envelope, calls, stderr>>

GetQueueName ==
    /\ pc = "get_queue_name"
    /\ LET r == get_env("RABBITMQ_QUEUE")
       IN  /\ stdout' = stdout \o r.out
           /\ IF r.exits
              THEN Exit(r.status) /\ UNCHANGED queue_name
              ELSE pc' = "get_username" /\ queue_name' = r.value /\ UNCHANGED exit_code
    /\ UNCHANGED <<env, hostname, port, username, password, conn, envelope, calls, stderr>>

GetUsername ==
    /\ pc = "get_username"
    /\ LET r == get_env("RABBITMQ_USERNAME")
       IN  /\ stdout' = stdout \o r.out
           /\ IF r.exits
              THEN Exit(r.status) /\ UNCHANGED username
              ELSE pc' = "get_password" /\ username' = r.value /\ UNCHANGED exit_code
    /\ UNCHANGED <<env, hostname, port, queue_name, password, conn, envelope, calls, stderr>>

GetPassword ==
    /\ pc = "get_password"
    /\ LET r == get_env("RABBITMQ_PASSWORD")
       IN  /\ stdout' = stdout \o r.out
           /\ IF r.exits
              THEN Exit(r.status) /\ UNCHANGED password
              ELSE pc' = "new_connection" /\ password' = r.value /\ UNCHANGED exit_code
    /\ UNCHANGED <<env, hostname, port, queue_name, username, conn, envelope, calls, stderr>>

----------------------------------------------------------------------------
(* main, lines 70-81: connection object, socket, transport connect *)

NewConnection ==
    /\ pc = "new_connection"
    /\ conn' = "allocated"
    /\ calls' = Append(calls, Call("amqp_new_connection", <<>>, "conn"))
    /\ pc' = "socket_new"
    /\ UNCHANGED <<env, hostname, port, queue_name, username, password,
                   envelope, stdout, stderr, exit_code>>

\* Variant: the NULL check on the socket is missing.
SocketNew_NoCheck ==
    /\ pc = "socket_new"
    /\ \E socket \in {"NULL", "socket"} :
          calls' = Append(calls, Call("amqp_tcp_socket_new", <<>>, socket))
    /\ pc' = "socket_open"
    /\ UNCHANGED <<env, hostname, port, queue_name, username, password,
                   conn, envelope, stdout, stderr, exit_code>>

SocketNew ==
    /\ pc = "socket_new"
    /\ \E socket \in {"NULL", "socket"} :
          /\ calls' = Append(calls, Call("amqp_tcp_socket_new", <<>>, socket))
          /\ IF socket = "NULL"
             THEN /\ stderr' = Append(stderr, <<"failed to create socket">>)
                  /\ Exit(1)
             ELSE /\ pc' = "socket_open"
                  /\ UNCHANGED <<stderr, exit_code>>
    /\ UNCHANGED <<env, hostname, port, queue_name, username, password,
                   conn, envelope, stdout>>

\* Variant: the return after the connect failure message is missing.
SocketOpen_NoReturn ==
    /\ pc = "socket_open"
    /\ \E status \in {0, AMQP_STATUS_SOCKET_ERROR} :
          /\ calls' = Append(calls, Call("amqp_socket_open",
                                         [host |-> hostname, port |-> port], status))
          /\ stderr' = IF status # 0
                       THEN Append(stderr, <<"failed to connect to rabbitmq">>)
                       ELSE stderr
          /\ pc' = "login"
          /\ UNCHANGED exit_code
    /\ UNCHANGED <<env, hostname, port, queue_name, username, password,
                   conn, envelope, stdout>>

SocketOpen ==
    /\ pc = "socket_open"
    /\ \E status \in {0, AMQP_STATUS_SOCKET_ERROR} :
          /\ calls' = Append(calls, Call("amqp_socket_open",
                                         [host |-> hostname, port |-> port], status))
          /\ IF status # 0
             THEN /\ stderr' = Append(stderr, <<"failed to connect to rabbitmq">>)
                  /\ Exit(1)
             ELSE /\ pc' = "login"
                  /\ UNCHANGED <<stderr, exit_code>>
    /\ UNCHANGED <<env, hostname, port, queue_name, username, password,
                   conn, envelope, stdout>>

----------------------------------------------------------------------------
(* main, lines 83-92: the four classified bootstrap calls *)

\* One library RPC whose reply x goes straight to die_on_amqp_error.
ClassifiedCall(op, args, x, context, nextpc) ==
    /\ calls' = Append(calls, Call(op, args, x))
    /\ LET d == die_on_amqp_error(x, context)
       IN  /\ stderr' = stderr \o d.out
           /\ IF d.exits
              THEN Exit(d.status)
              ELSE pc' = nextpc /\ UNCHANGED exit_code

\* Variant: the login reply is not classified.
Login_Unchecked ==
    /\ pc = "login"
    /\ \E x \in Replies :
          calls' = Append(calls, Call("amqp_login",
                         [vhost |-> "/", channel_max |-> 0, frame_max |-> 131072,
                          heartbeat |-> 0, sasl_method |-> "AMQP_SASL_METHOD_PLAIN",
                          username |-> username, password |-> password], x))
    /\ pc' = "channel_open"
    /\ UNCHANGED <<env, hostname, port, queue_name, username, password,
                   conn, envelope, stdout, stderr, exit_code>>

Login ==
    /\ pc = "login"
    /\ \E x \in Replies :
          ClassifiedCall("amqp_login",
                         [vhost |-> "/", channel_max |-> 0, frame_max |-> 131072,
                          heartbeat |-> 0, sasl_method |-> "AMQP_SASL_METHOD_PLAIN",
                          username |-> username, password |-> password],
                         x, "login", "channel_open")
    /\ UNCHANGED <<env, hostname, port, queue_name, username, password,
                   conn, envelope, stdout>>

\* Variant: the reply of the channel open is not classified.
ChannelOpen_Unchecked ==
    /\ pc = "channel_open"
    /\ \E x \in Replies :
          calls' = Append(calls, Call("amqp_channel_open", [channel |-> 1], x))
    /\ pc' = "queue_declare"
    /\ UNCHANGED <<env, hostname, port, queue_name, username, password,
                   conn, envelope, stdout, stderr, exit_code>>

ChannelOpen ==
    /\ pc = "channel_open"
    /\ \E x \in Replies :
          ClassifiedCall("amqp_channel_open", [channel |-> 1],
                         x, "opening channel", "queue_declare")
    /\ UNCHANGED <<env, hostname, port, queue_name, username, password,
                   conn, envelope, stdout>>

\* Variant: a failed declare unwinds through the shutdown sequence.
QueueDeclare_Cleanup ==
    /\ pc = "queue_declare"
    /\ \E x \in Replies :
          /\ calls' = Append(calls, Call("amqp_queue_declare",
                         [channel |-> 1, queue |-> queue_name, passive |-> 1,
                          durable |-> 0, exclusive |-> 0, auto_delete |-> 1], x))
          /\ stderr' = stderr \o die_on_amqp_error(x, "declaring queue").out
          /\ pc' = IF IsNormal(x) THEN "basic_consume" ELSE "channel_close"
    /\ UNCHANGED <<env, hostname, port, queue_name, username, password,
                   conn, envelope, stdout, exit_code>>

\* Variant: the queue is declared durable and created rather than checked.
QueueDeclare_Durable ==
    /\ pc = "queue_declare"
    /\ \E x \in Replies :
          ClassifiedCall("amqp_queue_declare",
                         [channel |-> 1, queue |-> queue_name, passive |-> 0,
                          durable |-> 1, exclusive |-> 0, auto_delete |-> 0],
                         x, "declaring queue", "basic_consume")
    /\ UNCHANGED <<env, hostname, port, queue_name, username, password,
                   conn, envelope, stdout>>

QueueDeclare ==
    /\ pc = "queue_declare"
    /\ \E x \in Replies :
          ClassifiedCall("amqp_queue_declare",
                         [channel |-> 1, queue |-> queue_name, passive |-> 1,
                          durable |-> 0, exclusive |-> 0, auto_delete |-> 1],
                         x, "declaring queue", "basic_consume")
    /\ UNCHANGED <<env, hostname, port, queue_name, username, password,
                   conn, envelope, stdout>>

\* Variant: the reply of the consume request is not classified.
BasicConsume_Unchecked ==
    /\ pc = "basic_consume"
    /\ \E x \in Replies :
          calls' = Append(calls, Call("amqp_basic_consume",
                         [channel |-> 1, queue |-> queue_name, consumer_tag |-> "",
                          no_local |-> 0, no_ack |-> 1, exclusive |-> 0], x))
    /\ pc' = "release_buffers"
    /\ UNCHANGED <<env, hostname, port, queue_name, username, password,
                   conn, envelope, stdout, stderr, exit_code>>

BasicConsume ==
    /\ pc = "basic_consume"
    /\ \E x \in Replies :
          ClassifiedCall("amqp_basic_consume",
                         [channel |-> 1, queue |-> queue_name, consumer_tag |-> "",
                          no_local |-> 0, no_ack |-> 1, exclusive |-> 0],
                         x, "consuming", "release_buffers")
    /\ UNCHANGED <<env, hostname, port, queue_name, username, password,
                   conn, envelope, stdout>>

----------------------------------------------------------------------------
(* main, lines 94-111: the consume loop *)

NumCalls(op) == Cardinality({i \in 1..Len(calls) : calls[i].op = op})

NormalReceives ==
    {i \in 1..Len(calls) : calls[i].op = "amqp_consume_message" /\ IsNormal(calls[i].ret)}

ReleaseBuffers ==
    /\ pc = "release_buffers"
    /\ calls' = Append(calls, Call("amqp_maybe_release_buffers", <<>>, "void"))
    /\ pc' = "consume_message"
    /\ UNCHANGED <<env, hostname, port, queue_name, username, password,
                   conn, envelope, stdout, stderr, exit_code>>

\* Variant: the length handed over is one short.
HandlerArg_Short(e) ==
    LET b == e.message.body
        n == IF b.len > 0 THEN b.len - 1 ELSE 0
    IN  [len |-> n, bytes |-> SubSeq(b.bytes, 1, n)]

\* The body the message handler is given.
HandlerArg(e) == e.message.body

\* Variant: an empty message also ends the loop.
ConsumeMessage_StopOnEmpty ==
    /\ pc = "consume_message"
    /\ \E result \in Replies :
          IF IsNormal(result)
          THEN /\ Cardinality(NormalReceives) < MaxMessages
               /\ \E body \in Bodies :
                     /\ envelope' = [live |-> TRUE, message |-> [body |-> body]]
                     /\ calls' = Append(calls, Call("amqp_consume_message",
                                                    [body |-> body], result))
                     /\ pc' = IF body.len = 0 THEN "channel_close" ELSE "handle_message"
          ELSE /\ calls' = Append(calls, Call("amqp_consume_message",
                                              [body |-> NoEnvelope.message.body], result))
               /\ pc' = "channel_close"
               /\ UNCHANGED envelope
    /\ UNCHANGED <<env, hostname, port, queue_name, username, password,
                   conn, stdout, stderr, exit_code>>

\* Variant: the loop exit goes straight to the connection close.
ConsumeMessage_SkipChannelClose ==
    /\ pc = "consume_message"
    /\ \E result \in Replies :
          IF IsNormal(result)
          THEN /\ Cardinality(NormalReceives) < MaxMessages
               /\ \E body \in Bodies :
                     /\ envelope' = [live |-> TRUE, message |-> [body |-> body]]
                     /\ calls' = Append(calls, Call("amqp_consume_message",
                                                    [body |-> body], result))
               /\ pc' = "handle_message"
          ELSE /\ calls' = Append(calls, Call("amqp_consume_message",
                                              [body |-> NoEnvelope.message.body], result))
               /\ pc' = "connection_close"
               /\ UNCHANGED envelope
    /\ UNCHANGED <<env, hostname, port, queue_name, username, password,
                   conn, stdout, stderr, exit_code>>

\* Variant: the loop stops after its second message.
ConsumeMessage_CountLimit ==
    /\ pc = "consume_message"
    /\ \E result \in Replies :
          IF IsNormal(result)
          THEN /\ Cardinality(NormalReceives) < MaxMessages
               /\ \E body \in Bodies :
                     /\ envelope' = [live |-> TRUE, message |-> [body |-> body]]
                     /\ calls' = Append(calls, Call("amqp_consume_message",
                                                    [body |-> body], result))
               /\ pc' = IF Cardinality(NormalReceives) >= 1
                        THEN "channel_close" ELSE "handle_message"
          ELSE /\ calls' = Append(calls, Call("amqp_consume_message",
                                              [body |-> NoEnvelope.message.body], result))
               /\ pc' = "channel_close"
               /\ UNCHANGED envelope
    /\ UNCHANGED <<env, hostname, port, queue_name, username, password,
                   conn, stdout, stderr, exit_code>>

\* Variant: the receive result goes through die_on_amqp_error.
ConsumeMessage_Classified ==
    /\ pc = "consume_message"
    /\ \E result \in Replies :
          IF IsNormal(result)
          THEN /\ Cardinality(NormalReceives) < MaxMessages
               /\ \E body \in Bodies :
                     /\ envelope' = [live |-> TRUE, message |-> [body |-> body]]
                     /\ calls' = Append(calls, Call("amqp_consume_message",
                                                    [body |-> body], result))
               /\ pc' = "handle_message"
               /\ UNCHANGED <<stderr, exit_code>>
          ELSE /\ calls' = Append(calls, Call("amqp_consume_message",
                                              [body |-> NoEnvelope.message.body], result))
               /\ stderr' = stderr \o die_on_amqp_error(result, "consuming message").out
               /\ Exit(1)
               /\ UNCHANGED envelope
    /\ UNCHANGED <<env, hostname, port, queue_name, username, password,
                   conn, stdout>>

\* amqp_consume_message blocks until a delivery or a non-normal condition.
\* After MaxMessages deliveries the broker delivers nothing more: the call
\* then either stays blocked or returns a non-normal reply.
ConsumeMessage ==
    /\ pc = "consume_message"
    /\ \E result \in Replies :
          IF IsNormal(result)
          THEN /\ Cardinality(NormalReceives) < MaxMessages
               /\ \E body \in Bodies :
                     /\ envelope' = [live |-> TRUE, message |-> [body |-> body]]
                     /\ calls' = Append(calls, Call("amqp_consume_message",
                                                    [body |-> body], result))
               /\ pc' = "handle_message"
          ELSE /\ calls' = Append(calls, Call("amqp_consume_message",
                                              [body |-> NoEnvelope.message.body], result))
               /\ pc' = "channel_close"
               /\ UNCHANGED envelope
    /\ UNCHANGED <<env, hostname, port, queue_name, username, password,
                   conn, stdout, stderr, exit_code>>

\* Lines 104-108: the per-message action.
HandleMessage ==
    /\ pc = "handle_message"
    /\ LET body == HandlerArg(envelope)
       IN  /\ calls' = Append(calls, Call("handler", [body |-> body], "void"))
           /\ stdout' = stdout \o << <<"received message:", PrintfPrecS(body.len, body.bytes)>>,
                                     <<"irrigating...">> >>
    /\ pc' = "destroy_envelope"
    /\ UNCHANGED <<env, hostname, port, queue_name, username, password,
                   conn, envelope, stderr, exit_code>>

\* Variant: the envelope is not destroyed before the next iteration.
DestroyEnvelope_Leak ==
    /\ pc = "destroy_envelope"
    /\ pc' = "release_buffers"
    /\ UNCHANGED <<env, hostname, port, queue_name, username, password,
                   conn, envelope, calls, stdout, stderr, exit_code>>

DestroyEnvelope ==
    /\ pc = "destroy_envelope"
    /\ calls' = Append(calls, Call("amqp_destroy_envelope", [body |-> envelope.message.body], "void"))
    /\ envelope' = NoEnvelope
    /\ pc' = "release_buffers"
    /\ UNCHANGED <<env, hostname, port, queue_name, username, password,
                   conn, stdout, stderr, exit_code>>

----------------------------------------------------------------------------
(* main, lines 113-117: shutdown *)

\* Variant: the reply of the channel close is not classified.
ChannelClose_Unchecked ==
    /\ pc = "channel_close"
    /\ \E x \in Replies :
          calls' = Append(calls, Call("amqp_channel_close",
                                      [channel |-> 1, code |-> AMQP_REPLY_SUCCESS], x))
    /\ pc' = "connection_close"
    /\ UNCHANGED <<env, hostname, port, queue_name, username, password,
                   conn, envelope, stdout, stderr, exit_code>>

ChannelClose ==
    /\ pc = "channel_close"
    /\ \E x \in Replies :
          ClassifiedCall("amqp_channel_close", [channel |-> 1, code |-> AMQP_REPLY_SUCCESS],
                         x, "closing channel", "connection_close")
    /\ UNCHANGED <<env, hostname, port, queue_name, username, password,
                   conn, envelope, stdout>>

ConnectionClose ==
    /\ pc = "connection_close"
    /\ \E x \in Replies :
          ClassifiedCall("amqp_connection_close", [code |-> AMQP_REPLY_SUCCESS],
                         x, "closing connection", "destroy_connection")
    /\ UNCHANGED <<env, hostname, port, queue_name, username, password,
                   conn, envelope, stdout>>

DestroyConnection ==
    /\ pc = "destroy_connection"
    /\ calls' = Append(calls, Call("amqp_destroy_connection", <<>>, "void"))
    /\ conn' = "destroyed"
    /\ pc' = "return"
    /\ UNCHANGED <<env, hostname, port, queue_name, username, password,
                   envelope, stdout, stderr, exit_code>>

ReturnMain ==
    /\ pc = "return"
    /\ Exit(0)
    /\ UNCHANGED <<env, hostname, port, queue_name, username, password,
                   conn, envelope, calls, stdout, stderr>>

----------------------------------------------------------------------------

Next ==
    \/ GetHostname \/ GetPort \/ GetQueueName \/ GetUsername \/ GetPassword
    \/ NewConnection \/ SocketNew \/ SocketOpen
    \/ Login \/ ChannelOpen \/ QueueDeclare \/ BasicConsume
    \/ ReleaseBuffers \/ ConsumeMessage \/ HandleMessage \/ DestroyEnvelope
    \/ ChannelClose \/ ConnectionClose \/ DestroyConnection \/ ReturnMain

\* Every statement but the blocking receive: a sequential process that is not
\* blocked in a library call takes its next step.
Running ==
    \/ GetHostname \/ GetPort \/ GetQueueName \/ GetUsername \/ GetPassword
    \/ NewConnection \/ SocketNew \/ SocketOpen
    \/ Login \/ ChannelOpen \/ QueueDeclare \/ BasicConsume
    \/ ReleaseBuffers \/ HandleMessage \/ DestroyEnvelope
    \/ ChannelClose \/ ConnectionClose \/ DestroyConnection \/ ReturnMain

Spec == Init /\ [][Next]_vars

\* The same program with progress: amqp_consume_message may block forever,
\* every other statement eventually completes.
FairSpec == Init /\ [][Next]_vars /\ WF_vars(Running)

----------------------------------------------------------------------------
(* Vocabulary of the properties *)

\* The five bootstrap stages, in the order main performs them.
BootstrapOps == <<"amqp_socket_open", "amqp_login", "amqp_channel_open",
                  "amqp_queue_declare", "amqp_basic_consume">>

BootstrapSet == {BootstrapOps[k] : k \in 1..Len(BootstrapOps)}

\* The calls whose reply goes through die_on_amqp_error.
ClassifiedOps == {"amqp_login", "amqp_channel_open", "amqp_queue_declare",
                  "amqp_basic_consume", "amqp_channel_close", "amqp_connection_close"}

BrokerOps == {"amqp_new_connection", "amqp_tcp_socket_new", "amqp_socket_open",
              "amqp_maybe_release_buffers", "amqp_consume_message",
              "amqp_destroy_envelope", "amqp_destroy_connection"} \cup ClassifiedOps

StageOf(op) == CHOOSE k \in 1..Len(BootstrapOps) : BootstrapOps[k] = op

\* A stage succeeded: transport connect returned 0, an RPC returned Normal.
Succeeded(c) == IF c.op = "amqp_socket_open" THEN c.ret = 0 ELSE IsNormal(c.ret)

Indices(op) == {i \in 1..Len(calls) : calls[i].op = op}

SetMax(S) == CHOOSE m \in S : \A n \in S : n <= m

\* Session state as a rank: 0 Unconnected, 1 Connected, 2 Authenticated,
\* 3 ChannelOpen, 4 QueueDeclared, 5 Consuming: the stage of the latest
\* bootstrap call that succeeded.
SessionRank ==
    LET S == {i \in 1..Len(calls) : calls[i].op \in BootstrapSet /\ Succeeded(calls[i])}
    IN  IF S = {} THEN 0 ELSE StageOf(calls[SetMax(S)].op)

Terminated == pc = "exited"

LoopStarted == NumCalls("amqp_maybe_release_buffers") > 0

NonNormalReceives ==
    {i \in 1..Len(calls) : calls[i].op = "amqp_consume_message" /\ ~IsNormal(calls[i].ret)}

LoopExited == NonNormalReceives # {}

----------------------------------------------------------------------------
(* C1 *)

C1_Order ==
    \A i \in 1..Len(calls) :
        calls[i].op \in BootstrapSet =>
            LET k == StageOf(calls[i].op)
            IN  /\ k > 1 => \E j \in 1..(i - 1) :
                                /\ calls[j].op = BootstrapOps[k - 1]
                                /\ Succeeded(calls[j])
                /\ \A j \in 1..(i - 1) :
                       calls[j].op \in BootstrapSet => StageOf(calls[j].op) < k

\* C1: the bootstrap operations are invoked only in the order connect,
\* authenticate, openChannel, declareQueue, startConsuming, each only after
\* the previous one succeeded, and the session state never moves back to an
\* earlier stage.
C1_BootstrapOrder == [](C1_Order) /\ [][SessionRank' >= SessionRank]_vars

C1_Witness ==
    /\ NumCalls("amqp_basic_consume") = 1
    /\ SessionRank = 5

(* C2 *)

\* C2: a non-normal outcome at a bootstrap stage halts the process before any
\* later call; each stage is invoked at most once; a stage is invoked only if
\* every earlier stage was invoked and succeeded.
C2_HaltNoRetryNoSkip ==
    \A i \in 1..Len(calls) :
        calls[i].op \in BootstrapSet =>
            /\ NumCalls(calls[i].op) = 1
            /\ ~Succeeded(calls[i]) =>
                   /\ i = Len(calls)
                   /\ Terminated
                   /\ exit_code = 1
            /\ \A k \in 1..(StageOf(calls[i].op) - 1) :
                   \E j \in 1..(i - 1) :
                       calls[j].op = BootstrapOps[k] /\ Succeeded(calls[j])

C2_Witness ==
    /\ Terminated
    /\ NumCalls("amqp_queue_declare") = 1
    /\ \E i \in Indices("amqp_queue_declare") : ~Succeeded(calls[i])
    /\ NumCalls("amqp_basic_consume") = 0

(* C3 *)

\* C3: the handler runs exactly once for each receive that returned Normal,
\* with exactly that envelope's body, in delivery order, and never for a
\* non-normal receive: every handler run directly follows a Normal receive of
\* the same body, and every Normal receive is directly followed by its
\* handler run (or that run is the next statement).
C3_HandlerPerEnvelope ==
    /\ \A i \in Indices("handler") :
           /\ i > 1
           /\ calls[i - 1].op = "amqp_consume_message"
           /\ IsNormal(calls[i - 1].ret)
           /\ calls[i].args.body = calls[i - 1].args.body
    /\ \A i \in NormalReceives :
           IF i < Len(calls)
           THEN calls[i + 1].op = "handler"
           ELSE pc = "handle_message" /\ envelope.live
                /\ envelope.message.body = calls[i].args.body
    /\ \A i \in NonNormalReceives :
           i = Len(calls) \/ calls[i + 1].op # "handler"

C3_Witness ==
    /\ NumCalls("handler") = 2
    /\ \E i, j \in Indices("handler") :
           /\ i < j
           /\ calls[i].args.body # calls[j].args.body
           /\ calls[i].args.body.len > 0

(* C4 *)

\* C4: the loop ends on, and only on, the first non-normal receive: once a
\* receive was non-normal it is the last receive, the handler ran once per
\* Normal receive before it and receiveOne ran once more than that; and the
\* program is past the loop only if a receive was non-normal.
C4_LoopExit ==
    /\ LoopExited =>
           /\ Cardinality(NonNormalReceives) = 1
           /\ \A i \in NormalReceives : \A j \in NonNormalReceives : i < j
           /\ NumCalls("handler") = Cardinality(NormalReceives)
           /\ NumCalls("amqp_consume_message") = Cardinality(NormalReceives) + 1
           /\ pc \notin {"release_buffers", "consume_message",
                         "handle_message", "destroy_envelope"}
    /\ (LoopStarted /\ ~LoopExited) =>
           /\ pc \in {"release_buffers", "consume_message",
                      "handle_message", "destroy_envelope"}
           /\ NumCalls("amqp_channel_close") = 0
           /\ ~Terminated

C4_Witness ==
    /\ LoopExited
    /\ Cardinality(NormalReceives) = MaxMessages
    /\ NumCalls("handler") = MaxMessages

(* C5 *)

\* The statement as first made: whenever the process has terminated after the
\* loop started, closeChannel and closeConnection were each invoked exactly
\* once, closeChannel first.
C5_ShutdownAlwaysBoth ==
    (Terminated /\ LoopStarted) =>
        /\ NumCalls("amqp_channel_close") = 1
        /\ NumCalls("amqp_connection_close") = 1
        /\ \A i \in Indices("amqp_channel_close") :
               \A j \in Indices("amqp_connection_close") : i < j

\* C5 (amended): once the loop has exited, closeChannel is invoked exactly
\* once, and closeConnection exactly once, directly after it, if and only if
\* closeChannel returned Normal; neither is invoked before the loop exited;
\* a process that terminates after the loop started has invoked closeChannel.
C5_ShutdownOrder ==
    /\ NumCalls("amqp_channel_close") <= 1
    /\ NumCalls("amqp_connection_close") <= 1
    /\ \A i \in Indices("amqp_channel_close") :
           /\ i > 1
           /\ calls[i - 1].op = "amqp_consume_message"
           /\ ~IsNormal(calls[i - 1].ret)
           /\ IF IsNormal(calls[i].ret)
              THEN IF i < Len(calls)
                   THEN calls[i + 1].op = "amqp_connection_close"
                   ELSE pc = "connection_close"
              ELSE NumCalls("amqp_connection_close") = 0
    /\ \A j \in Indices("amqp_connection_close") :
           /\ j > 1
           /\ calls[j - 1].op = "amqp_channel_close"
           /\ IsNormal(calls[j - 1].ret)
    /\ LoopExited => (pc = "channel_close" \/ NumCalls("amqp_channel_close") = 1)
    /\ (Terminated /\ LoopStarted) => NumCalls("amqp_channel_close") = 1

C5_Witness ==
    /\ Terminated
    /\ NumCalls("amqp_channel_close") = 1
    /\ NumCalls("amqp_connection_close") = 1
    /\ Cardinality(NormalReceives) = 1

(* C6 *)

EnvFailure == env.present # KeySet

ConnectFailure == \E i \in Indices("amqp_socket_open") : calls[i].ret # 0

ClassifiedFailure ==
    \E i \in 1..Len(calls) : calls[i].op \in ClassifiedOps /\ ~IsNormal(calls[i].ret)

\* C6: exit code 0 only if the loop exited and closeChannel and
\* closeConnection both returned Normal; exit code 1 on a missing environment
\* variable, a transport-connect failure and a non-normal classified reply at
\* any stage; no other exit code.
C6_ExitCodes ==
    /\ Terminated <=> exit_code # NoExit
    /\ Terminated => exit_code \in {0, 1}
    /\ exit_code = 0 =>
           /\ LoopExited
           /\ \E i \in Indices("amqp_channel_close") : IsNormal(calls[i].ret)
           /\ \E i \in Indices("amqp_connection_close") : IsNormal(calls[i].ret)
           /\ ~ClassifiedFailure
    /\ (Terminated /\ EnvFailure) => exit_code = 1
    /\ ConnectFailure => (Terminated /\ exit_code = 1)
    /\ ClassifiedFailure => (Terminated /\ exit_code = 1)

C6_Witness ==
    /\ Terminated
    /\ exit_code = 0
    /\ NumCalls("handler") >= 1

(* C7 *)

AbsentKeys == {k \in 1..Len(EnvKeys) : EnvKeys[k] \notin env.present}

ConfigPcs == {"get_hostname", "get_port", "get_queue_name", "get_username", "get_password"}

\* C7: if a required key is absent, no broker operation is ever attempted and
\* the process ends in the configuration stage with exit code 1 and one
\* diagnostic line; that line names the absent key (with several keys absent,
\* the first of them in lookup order).
C7_MissingKey ==
    AbsentKeys # {} =>
        /\ \A i \in 1..Len(calls) : calls[i].op \notin BrokerOps
        /\ calls = <<>>
        /\ conn = "none"
        /\ pc \in ConfigPcs \cup {"exited"}
        /\ Terminated =>
               /\ exit_code = 1
               /\ stderr = <<>>
               /\ Len(stdout) = 1
               /\ \E k \in AbsentKeys :
                      /\ stdout[1] = <<"env", EnvKeys[k], "is not set">>
                      /\ \A m \in AbsentKeys : k <= m
               /\ \A k \in AbsentKeys :
                      AbsentKeys = {k} => stdout[1][2] = EnvKeys[k]

C7_Witness ==
    /\ Terminated
    /\ env.present = KeySet \ {"RABBITMQ_PASSWORD"}
    /\ stdout = << <<"env", "RABBITMQ_PASSWORD", "is not set">> >>
    /\ exit_code = 1

(* C8 *)

BootstrapFailure ==
    \E i \in 1..Len(calls) : calls[i].op \in BootstrapSet /\ ~Succeeded(calls[i])

\* C8: when a bootstrap stage fails the process terminates without invoking
\* closeChannel or closeConnection, whatever was already opened.
C8_NoRollback ==
    BootstrapFailure =>
        /\ Terminated
        /\ NumCalls("amqp_channel_close") = 0
        /\ NumCalls("amqp_connection_close") = 0
        /\ calls[Len(calls)].op \in BootstrapSet

C8_Witness ==
    /\ Terminated
    /\ SessionRank = 4
    /\ \E i \in Indices("amqp_basic_consume") : ~Succeeded(calls[i])
    /\ NumCalls("amqp_channel_close") = 0

(* C9 *)

\* C9: a non-normal closeChannel terminates the process with exit code 1
\* before closeConnection is invoked, and a non-normal closeConnection
\* terminates the process with exit code 1.
C9_ShutdownFailureFatal ==
    /\ \A i \in Indices("amqp_channel_close") :
           ~IsNormal(calls[i].ret) =>
               /\ i = Len(calls)
               /\ Terminated
               /\ exit_code = 1
               /\ NumCalls("amqp_connection_close") = 0
    /\ \A i \in Indices("amqp_connection_close") :
           ~IsNormal(calls[i].ret) =>
               /\ i = Len(calls)
               /\ Terminated
               /\ exit_code = 1
               /\ conn = "allocated"

C9_Witness ==
    /\ Terminated
    /\ exit_code = 1
    /\ \E i \in Indices("amqp_channel_close") : ~IsNormal(calls[i].ret)

(* C10 *)

\* C10: the classifier returns to its caller if and only if the reply is
\* Normal: after a Normal classified reply the program continues with the
\* next statement and no diagnostic; after any other reply the process has
\* exited with code 1, one diagnostic was written, and no call follows.
C10_ClassifierReturnsIffNormal ==
    \A i \in 1..Len(calls) :
        calls[i].op \in ClassifiedOps =>
            IF IsNormal(calls[i].ret)
            THEN i = Len(calls) => (~Terminated /\ exit_code = NoExit /\ stderr = <<>>)
            ELSE /\ i = Len(calls)
                 /\ Terminated
                 /\ exit_code = 1
                 /\ Len(stderr) = 1

C10_Witness ==
    /\ Terminated
    /\ exit_code = 1
    /\ Len(calls) > 0
    /\ calls[Len(calls)].op = "amqp_login"
    /\ calls[Len(calls)].ret.reply_type = "AMQP_RESPONSE_SERVER_EXCEPTION"
    /\ calls[Len(calls)].ret.id = AMQP_BASIC_CANCEL_METHOD

(* C11 *)

\* C11: every broker call carries the fixed wire parameters: login on virtual
\* host "/" with plain credentials, frame size 131072 and heartbeat 0; channel
\* id 1 for open, declare, consume and close; declare with passive=1,
\* durable=0, exclusive=0, auto_delete=1; consume with an empty consumer tag,
\* no_local=0, no_ack=1, exclusive=0; declare and consume on the configured
\* queue name.
C11_WireParameters ==
    \A i \in 1..Len(calls) :
        LET c == calls[i]
        IN  /\ c.op = "amqp_login" =>
                   /\ c.args.vhost = "/"
                   /\ c.args.sasl_method = "AMQP_SASL_METHOD_PLAIN"
                   /\ c.args.frame_max = 131072
                   /\ c.args.heartbeat = 0
                   /\ c.args.username = env.value["RABBITMQ_USERNAME"]
                   /\ c.args.password = env.value["RABBITMQ_PASSWORD"]
            /\ c.op \in {"amqp_channel_open", "amqp_queue_declare",
                         "amqp_basic_consume", "amqp_channel_close"} =>
                   c.args.channel = 1
            /\ c.op = "amqp_queue_declare" =>
                   /\ c.args.passive = 1
                   /\ c.args.durable = 0
                   /\ c.args.exclusive = 0
                   /\ c.args.auto_delete = 1
                   /\ c.args.queue = env.value["RABBITMQ_QUEUE"]
            /\ c.op = "amqp_basic_consume" =>
                   /\ c.args.consumer_tag = ""
                   /\ c.args.no_local = 0
                   /\ c.args.no_ack = 1
                   /\ c.args.exclusive = 0
                   /\ c.args.queue = env.value["RABBITMQ_QUEUE"]
                   /\ \A j \in Indices("amqp_queue_declare") :
                          calls[j].args.queue = c.args.queue

C11_Witness ==
    /\ NumCalls("amqp_login") = 1
    /\ NumCalls("amqp_channel_open") = 1
    /\ NumCalls("amqp_queue_declare") = 1
    /\ NumCalls("amqp_basic_consume") = 1
    /\ NumCalls("amqp_channel_close") = 1

(* C12 *)

\* The stage name each classified call is reported under.
ContextOf(op) ==
    CASE op = "amqp_login"            -> "login"
      [] op = "amqp_channel_open"     -> "opening channel"
      [] op = "amqp_queue_declare"    -> "declaring queue"
      [] op = "amqp_basic_consume"    -> "consuming"
      [] op = "amqp_channel_close"    -> "closing channel"
      [] op = "amqp_connection_close" -> "closing connection"

\* The outcome taxonomy, in priority order.
OutcomeOf(x) ==
    IF x.reply_type = "AMQP_RESPONSE_NORMAL" THEN "Normal"
    ELSE IF x.reply_type = "AMQP_RESPONSE_NONE" THEN "MissingReplyType"
    ELSE IF x.reply_type = "AMQP_RESPONSE_LIBRARY_EXCEPTION" THEN "LibraryException"
    ELSE IF x.id = AMQP_CONNECTION_CLOSE_METHOD THEN "ServerConnectionError"
    ELSE IF x.id = AMQP_CHANNEL_CLOSE_METHOD THEN "ServerChannelError"
    ELSE "UnknownServerError"

\* C12: each classified reply produces the report of exactly its outcome,
\* prefixed by the stage's context name: nothing for Normal; the anomaly
\* message for a missing reply type; the library's diagnostic string for a
\* library exception; reply code and text as a connection error for
\* connection-close, as a channel error for channel-close; the raw method id
\* for any other method.
C12_Classification ==
    \A i \in 1..Len(calls) :
        calls[i].op \in ClassifiedOps =>
            LET x   == calls[i].ret
                ctx == ContextOf(calls[i].op)
                o   == OutcomeOf(x)
            IN  IF o = "Normal"
                THEN stderr = <<>> \/ i < Len(calls)
                ELSE /\ Len(stderr) = 1
                     /\ stderr[1][1] = ctx
                     /\ o = "MissingReplyType" =>
                            stderr[1] = <<ctx, "missing RPC reply type!">>
                     /\ o = "LibraryException" =>
                            stderr[1] = <<ctx, "amqp_error_string2", x.library_error>>
                     /\ o = "ServerConnectionError" =>
                            stderr[1] = <<ctx, "server connection error", x.reply_code, x.reply_text>>
                     /\ o = "ServerChannelError" =>
                            stderr[1] = <<ctx, "server channel error", x.reply_code, x.reply_text>>
                     /\ o = "UnknownServerError" =>
                            stderr[1] = <<ctx, "unknown server error, method id", x.id>>

C12_Witness ==
    /\ Terminated
    /\ Len(calls) > 0
    /\ calls[Len(calls)].op = "amqp_queue_declare"
    /\ OutcomeOf(calls[Len(calls)].ret) = "ServerChannelError"
    /\ stderr = << <<"declaring queue", "server channel error", 404, "NOT_FOUND">> >>

(* C13 *)

\* Channel, queue, consume and receive operations on the connection.
SessionOps == {"amqp_channel_open", "amqp_queue_declare", "amqp_basic_consume",
               "amqp_maybe_release_buffers", "amqp_consume_message",
               "amqp_channel_close"}

\* Operations that talk to the broker over the connection.
ProtocolOps == SessionOps \cup {"amqp_socket_open", "amqp_login", "amqp_connection_close"}

\* C13: no channel, queue, consume or receive operation is invoked before
\* authenticate returned Normal; after closeConnection was invoked nothing
\* more is exchanged over the connection (only its memory is released); the
\* channel is opened only after authentication and closeChannel comes before
\* closeConnection.
C13_ConnectionLifetime ==
    /\ \A i \in 1..Len(calls) :
           calls[i].op \in SessionOps =>
               \E j \in 1..(i - 1) :
                   calls[j].op = "amqp_login" /\ IsNormal(calls[j].ret)
    /\ \A j \in Indices("amqp_connection_close") :
           /\ \A i \in (j + 1)..Len(calls) :
                  /\ calls[i].op \notin ProtocolOps
                  /\ calls[i].op = "amqp_destroy_connection"
           /\ \E i \in 1..(j - 1) : calls[i].op = "amqp_channel_close"
           /\ \A i \in Indices("amqp_channel_close") : i < j
    /\ \A j \in Indices("amqp_destroy_connection") : j = Len(calls)
    /\ conn = "destroyed" => pc \in {"return", "exited"}

C13_Witness ==
    /\ NumCalls("amqp_connection_close") = 1
    /\ NumCalls("amqp_destroy_connection") = 1
    /\ conn = "destroyed"
    /\ pc = "return"

(* C14 *)

LoopOps == {"amqp_maybe_release_buffers", "amqp_consume_message",
            "handler", "amqp_destroy_envelope"}

ShutdownOps == {"amqp_channel_close", "amqp_connection_close", "amqp_destroy_connection"}

\* C14: bootstrap, then loop, then shutdown: receiveOne and the handler are
\* never invoked before startConsuming returned Normal nor after closeChannel
\* was invoked, and no bootstrap operation is invoked once the loop started.
C14_ThreePhases ==
    \A i \in 1..Len(calls) :
        /\ calls[i].op \in LoopOps =>
               /\ \E j \in 1..(i - 1) :
                      calls[j].op = "amqp_basic_consume" /\ IsNormal(calls[j].ret)
               /\ \A j \in 1..(i - 1) : calls[j].op \notin ShutdownOps
        /\ calls[i].op \in BootstrapSet =>
               \A j \in 1..(i - 1) : calls[j].op \notin LoopOps \cup ShutdownOps
        /\ calls[i].op \in ShutdownOps =>
               \E j \in 1..(i - 1) : calls[j].op \in LoopOps

C14_Witness ==
    /\ NumCalls("handler") = 1
    /\ NumCalls("amqp_channel_close") = 1
    /\ NumCalls("amqp_connection_close") = 0
    /\ Terminated

(* C15 *)

\* C15: every receive is directly preceded by a buffer release; at most one
\* envelope is live at any time; each envelope of a Normal receive is handled
\* and then destroyed exactly once before the next receive; nothing is
\* destroyed after a non-normal receive.
C15_OneEnvelopeAtATime ==
    /\ \A i \in Indices("amqp_consume_message") :
           /\ i > 1
           /\ calls[i - 1].op = "amqp_maybe_release_buffers"
    /\ \A i \in Indices("amqp_maybe_release_buffers") :
           /\ ~(i < Len(calls)) => (pc = "consume_message" /\ ~envelope.live)
           /\ i < Len(calls) => calls[i + 1].op = "amqp_consume_message"
    /\ \A i \in Indices("amqp_destroy_envelope") :
           /\ i > 2
           /\ calls[i - 1].op = "handler"
           /\ calls[i - 2].op = "amqp_consume_message"
           /\ IsNormal(calls[i - 2].ret)
           /\ calls[i].args.body = calls[i - 2].args.body
    /\ \A i \in Indices("handler") :
           IF i < Len(calls)
           THEN calls[i + 1].op = "amqp_destroy_envelope"
           ELSE pc = "destroy_envelope" /\ envelope.live
    /\ LET live == Cardinality(NormalReceives) - NumCalls("amqp_destroy_envelope")
       IN  /\ live \in {0, 1}
           /\ envelope.live <=> live = 1
    /\ \A i \in NonNormalReceives :
           /\ \A j \in (i + 1)..Len(calls) : calls[j].op # "amqp_destroy_envelope"
           /\ ~envelope.live

C15_Witness ==
    /\ NumCalls("amqp_destroy_envelope") = 2
    /\ NumCalls("amqp_maybe_release_buffers") = 3
    /\ LoopExited

(* C16 *)

\* C16: once the loop runs, the process terminates if and only if a receive
\* is non-normal: a non-normal receive leads to termination (through
\* shutdown), and while no receive has been non-normal the process has not
\* terminated and is still in the loop.
C16_TerminatesIffNonNormalReceive ==
    /\ LoopExited ~> Terminated
    /\ []((LoopStarted /\ ~LoopExited) =>
              (~Terminated /\ pc \in {"release_buffers", "consume_message",
                                      "handle_message", "destroy_envelope"}))

C16_Witness ==
    /\ Terminated
    /\ LoopExited
    /\ NormalReceives = {}
    /\ NumCalls("amqp_connection_close") = 1

(* C17 *)

\* A port value with no digit in it.
NonNumeric(s) == \A i \in 1..Len(s) : ~IsDigit(s[i])

C18_ReceiveNotClassified ==
    \A i \in NonNormalReceives :
        /\ i = Len(calls) =>
               /\ pc = "channel_close"
               /\ exit_code = NoExit
               /\ stderr = <<>>
        /\ i < Len(calls) => calls[i + 1].op = "amqp_channel_close"
        /\ (Terminated /\ ~ClassifiedFailure) =>
               /\ exit_code = 0
               /\ stderr = <<>>
        /\ exit_code = 1 => ClassifiedFailure
        /\ \A k \in 1..Len(stderr) :
               stderr[k][1] \in {"closing channel", "closing connection"}

C18_Witness ==
    /\ Terminated
    /\ exit_code = 0
    /\ stderr = <<>>
    /\ \E i \in NonNormalReceives :
           calls[i].ret.reply_type = "AMQP_RESPONSE_SERVER_EXCEPTION"

(* C19 *)

\* C19: a socket that cannot be created ends the process with exit code 1
\* before the transport connect or any later broker operation; on every
\* exit-code-1 path after the connection state was created it is never
\* destroyed; on the exit-code-0 path it is destroyed exactly once, right
\* after closeConnection returned Normal.
C19_SocketAndConnectionState ==
    /\ \A i \in Indices("amqp_tcp_socket_new") :
           /\ i > 1
           /\ calls[i - 1].op = "amqp_new_connection"
           /\ calls[i].ret = "NULL" =>
                  /\ i = Len(calls)
                  /\ Terminated
                  /\ exit_code = 1
                  /\ stderr = << <<"failed to create socket">> >>
                  /\ NumCalls("amqp_socket_open") = 0
    /\ (exit_code = 1 /\ NumCalls("amqp_new_connection") > 0) =>
           /\ conn = "allocated"
           /\ NumCalls("amqp_destroy_connection") = 0
    /\ exit_code = 0 =>
           /\ conn = "destroyed"
           /\ NumCalls("amqp_destroy_connection") = 1
    /\ \A i \in Indices("amqp_destroy_connection") :
           /\ i > 1
           /\ calls[i - 1].op = "amqp_connection_close"
           /\ IsNormal(calls[i - 1].ret)
           /\ conn = "destroyed"

C19_Witness ==
    /\ Terminated
    /\ exit_code = 1
    /\ conn = "allocated"
    /\ Len(calls) = 2
    /\ calls[2].op = "amqp_tcp_socket_new"
    /\ calls[2].ret = "NULL"

====
